---------------------------- MODULE Spec2Model ----------------------------
(***************************************************************************)
(* A model of the wish / bubbletea "Name?" example (src/basic/main.go).    *)
(*                                                                         *)
(* The process (func main) builds an SSH server, serves it from a          *)
(* goroutine and waits on the channel `done`; every accepted SSH session   *)
(* runs its own bubbletea program over a `model` holding one text input.   *)
(* Strings are sequences of one-character strings.                         *)
(***************************************************************************)
EXTENDS Integers, Sequences, FiniteSets, TLC

(***************************************************************************)
(* Bounds of the model.                                                    *)
(***************************************************************************)
\* Key events one session forwards to its text field.
MaxKeys == 2

\* The SSH sessions (connections) the server may accept.
Sessions == {"s1", "s2"}

(***************************************************************************)
(* Strings of the program.                                                 *)
(***************************************************************************)
EnterStr == <<"e", "n", "t", "e", "r">>
CtrlCStr == <<"c", "t", "r", "l", "+", "c">>
BackspaceStr == <<"b", "a", "c", "k", "s", "p", "a", "c", "e">>
LeftStr == <<"l", "e", "f", "t">>

\* ti.Placeholder = "Jae C"
Placeholder == <<"J", "a", "e", " ", "C">>

\* ti.Width = 20
Width == 20

\* fmt.Sprintf("Name?\n\n%v", ...): the text before the text field's view.
NamePrompt == <<"N", "a", "m", "e", "?", "\n", "\n">>

\* The text input's own prompt.
TiPrompt == <<">", " ">>

(***************************************************************************)
(* Messages.  A tea.KeyMsg has a type and, for KeyRunes, the runes read in *)
(* one go from the terminal; BlinkMsg stands for the non-key messages      *)
(* (cursor blink) the program receives.                                    *)
(***************************************************************************)
Named(t) == [type |-> t, runes |-> <<>>]

Runes(r) == [type |-> "KeyRunes", runes |-> r]

NamedKeys == {"KeyEnter", "KeyCtrlC", "KeyBackspace", "KeyLeft"}

RunePayloads == {<<"a", "b">>, <<"b">>, EnterStr}

KeyMsgs == {Named(t) : t \in NamedKeys} \cup {Runes(r) : r \in RunePayloads}

BlinkMsg == [type |-> "BlinkMsg", runes |-> <<>>]

\* The terminal's size, which a program receives when it starts: the
\* message other than a key of a program without text input.
WindowSizeMsg == [type |-> "WindowSizeMsg", runes |-> <<>>]

Msgs == KeyMsgs \cup {BlinkMsg}

\* What the user of each session sends: the first one edits with every key,
\* its runes arriving two at a time ("ab", or "enter" spelled out); the
\* second one types b's and ends.
MsgsOf(s) ==
    IF s = "s1"
      THEN Msgs \ {Runes(<<"b">>)}
      ELSE {Runes(<<"b">>), Named("KeyEnter"), Named("KeyCtrlC"), BlinkMsg}

\* msg.(tea.KeyMsg): the type assertion of Update.
IsKeyMsg(msg) == msg.type \notin {"BlinkMsg", "WindowSizeMsg"}

\* val.String(): the runes themselves for KeyRunes, the key's name otherwise.
KeyString(msg) ==
    CASE msg.type = "KeyRunes" -> msg.runes
      [] msg.type = "KeyEnter" -> EnterStr
      [] msg.type = "KeyCtrlC" -> CtrlCStr
      [] msg.type = "KeyBackspace" -> BackspaceStr
      [] msg.type = "KeyLeft" -> LeftStr
      [] OTHER -> <<>>

(***************************************************************************)
(* The text input (textinput.Model): the runes typed, the cursor position, *)
(* the focus flag, the placeholder and the display width.                  *)
(***************************************************************************)
\* textinput.New(), ti.Focus(), ti.Placeholder = "Jae C", ti.Width = 20.
NewTextInput ==
    [value |-> <<>>, pos |-> 0, focus |-> TRUE,
     placeholder |-> Placeholder, width |-> Width]

\* initialModel() without ti.Focus(): the field never responds to typing.
initialModelNoFocus == [ti |-> [NewTextInput EXCEPT !.focus = FALSE]]

\* initialModel(): a fresh model around a fresh text input.
initialModel == [ti |-> NewTextInput]

\* The runes r put into v after the first p runes.
InsertAt(v, p, r) == SubSeq(v, 1, p) \o r \o SubSeq(v, p + 1, Len(v))

\* v without its p-th rune.
RemoveAt(v, p) == SubSeq(v, 1, p - 1) \o SubSeq(v, p + 1, Len(v))

\* m.ti.Update(msg): the text field's default editing.  An unfocused field
\* ignores everything; a key is matched by its string against the field's
\* key map, and what matches nothing inserts the message's runes at the
\* cursor.  A non-key message changes neither value nor cursor.  The command
\* returned is the cursor's blink command, never tea.Quit.
TiUpdate(ti, msg) ==
    IF ~ti.focus
      THEN [ti |-> ti, cmd |-> "nil"]
      ELSE IF ~IsKeyMsg(msg)
        THEN [ti |-> ti, cmd |-> "Blink"]
        ELSE LET key == KeyString(msg)
                 new == CASE key = BackspaceStr ->
                               IF ti.pos > 0
                                 THEN [ti EXCEPT !.value = RemoveAt(ti.value, ti.pos),
                                                 !.pos = ti.pos - 1]
                                 ELSE ti
                          [] key = LeftStr ->
                               IF ti.pos > 0
                                 THEN [ti EXCEPT !.pos = ti.pos - 1]
                                 ELSE ti
                          [] OTHER ->
                               [ti EXCEPT !.value = InsertAt(ti.value, ti.pos, msg.runes),
                                          !.pos = ti.pos + Len(msg.runes)]
             IN  [ti |-> new, cmd |-> "Blink"]

\* m.ti.View(): the prompt, then the placeholder while nothing is typed and
\* the value otherwise; a cursor at the end of the value shows as one more
\* cell.  Every value of the model is shorter than the width, so nothing
\* scrolls.
TiView(ti) ==
    TiPrompt \o (IF Len(ti.value) = 0 /\ Len(ti.placeholder) > 0
                   THEN ti.placeholder
                   ELSE ti.value \o (IF ti.pos = Len(ti.value) /\ ti.focus
                                       THEN <<" ">> ELSE <<>>))

\* model.View(): fmt.Sprintf("Name?\n\n%v", m.ti.View()).
View(mdl) == NamePrompt \o TiView(mdl.ti)

\* model.Init(): the text input's blink command.
ModelInit == "Blink"

(***************************************************************************)
(* Variants of Update with a plausible slip each; the properties below     *)
(* must tell them from Update.                                             *)
(***************************************************************************)
\* Ctrl+C saves the value too before quitting.
UpdateCtrlCWrites(mdl, msg) ==
    IF IsKeyMsg(msg) /\ KeyString(msg) \in {CtrlCStr, EnterStr}
      THEN [model |-> mdl, cmd |-> "Quit", write |-> <<mdl.ti.value>>]
      ELSE LET r == TiUpdate(mdl.ti, msg)
           IN  [model |-> [mdl EXCEPT !.ti = r.ti], cmd |-> r.cmd, write |-> <<>>]

\* Enter quits without saving.
UpdateEnterNoWrite(mdl, msg) ==
    IF IsKeyMsg(msg) /\ KeyString(msg) \in {CtrlCStr, EnterStr}
      THEN [model |-> mdl, cmd |-> "Quit", write |-> <<>>]
      ELSE LET r == TiUpdate(mdl.ti, msg)
           IN  [model |-> [mdl EXCEPT !.ti = r.ti], cmd |-> r.cmd, write |-> <<>>]

\* A third key ("left") quits as well.
UpdateQuitsOnLeft(mdl, msg) ==
    IF IsKeyMsg(msg) /\ KeyString(msg) \in {CtrlCStr, LeftStr}
      THEN [model |-> mdl, cmd |-> "Quit", write |-> <<>>]
      ELSE IF IsKeyMsg(msg) /\ KeyString(msg) = EnterStr
        THEN [model |-> mdl, cmd |-> "Quit", write |-> <<mdl.ti.value>>]
        ELSE LET r == TiUpdate(mdl.ti, msg)
             IN  [model |-> [mdl EXCEPT !.ti = r.ti], cmd |-> r.cmd, write |-> <<>>]

\* The text field's new state is dropped: the old model is returned.
UpdateDropsTi(mdl, msg) ==
    IF IsKeyMsg(msg) /\ KeyString(msg) = CtrlCStr
      THEN [model |-> mdl, cmd |-> "Quit", write |-> <<>>]
      ELSE IF IsKeyMsg(msg) /\ KeyString(msg) = EnterStr
        THEN [model |-> mdl, cmd |-> "Quit", write |-> <<mdl.ti.value>>]
        ELSE LET r == TiUpdate(mdl.ti, msg)
             IN  [model |-> mdl, cmd |-> r.cmd, write |-> <<>>]

\* Every message goes to the text field first, the reserved keys included.
UpdateForwardsFirst(mdl, msg) ==
    LET r == TiUpdate(mdl.ti, msg)
        new == [mdl EXCEPT !.ti = r.ti]
    IN  IF IsKeyMsg(msg) /\ KeyString(msg) = CtrlCStr
          THEN [model |-> new, cmd |-> "Quit", write |-> <<>>]
          ELSE IF IsKeyMsg(msg) /\ KeyString(msg) = EnterStr
            THEN [model |-> new, cmd |-> "Quit", write |-> <<new.ti.value>>]
            ELSE [model |-> new, cmd |-> r.cmd, write |-> <<>>]

\* model.Update(msg): the returned model, the returned command, and the data
\* handed to os.WriteFile("output.log", ...) in this call, if any.
Update(mdl, msg) ==
    IF IsKeyMsg(msg) /\ KeyString(msg) = CtrlCStr
      THEN [model |-> mdl, cmd |-> "Quit", write |-> <<>>]
      ELSE IF IsKeyMsg(msg) /\ KeyString(msg) = EnterStr
        THEN [model |-> mdl, cmd |-> "Quit", write |-> <<mdl.ti.value>>]
        ELSE LET r == TiUpdate(mdl.ti, msg)
             IN  [model |-> [mdl EXCEPT !.ti = r.ti], cmd |-> r.cmd, write |-> <<>>]

(***************************************************************************)
(* output.log.  os.WriteFile("output.log", data, 0644) is not atomic: it   *)
(* opens the file with O_WRONLY|O_CREATE|O_TRUNC, which empties it, then   *)
(* writes the data at offset 0 through its own descriptor.  The open may   *)
(* fail, and then nothing is changed; the write may fail after only the    *)
(* first n bytes.  Sessions run in goroutines of their own, so the two     *)
(* system calls of one session interleave with those of another.           *)
(***************************************************************************)
NoFile == [exists |-> FALSE, data |-> <<>>]

\* open(O_WRONLY|O_CREATE|O_TRUNC): the file exists and is empty.
OpenTrunc(f) == [exists |-> TRUE, data |-> <<>>]

\* write(fd, bytes) at offset 0: the bytes replace the first Len(bytes)
\* bytes of what the file holds by now.
WriteAt0(f, bytes) ==
    [exists |-> TRUE,
     data |-> bytes \o SubSeq(f.data, Len(bytes) + 1, Len(f.data))]

(***************************************************************************)
(* Bounds and constants of the process part.                               *)
(***************************************************************************)
\* Interrupt/termination signals the environment sends to the process.
MaxSignals == 2

\* done := make(chan os.Signal, 1)
DoneCap == 1

\* What s.Shutdown(ctx) may return: nil, the closed-server error, another
\* error, or the context's error once the 30 s timeout has expired.
ShutdownResults == {"nil", "ErrServerClosed", "error", "DeadlineExceeded"}

(***************************************************************************)
(* State.                                                                  *)
(***************************************************************************)
VARIABLES
    \* ---- the process (func main and its goroutine)
    proc,      \* "running", "exited" (main returned), "panicked", "killed"
    mainpc,    \* where main is
    srv,       \* s: "unset", "ok", or "nil" when wish.NewServer failed
    servepc,   \* where the serving goroutine is
    done,      \* the buffer of the channel done
    notified,  \* signal.Notify(done, ...) has been called
    closed,    \* Shutdown has closed the server's listeners
    received,  \* what main received from done, <<>> before
    logs,      \* the error messages logged, with where
    shutdownErr, \* what s.Shutdown(ctx) returned, "none" before it returns
    sigs,      \* signals sent so far
    \* ---- the sessions
    status,    \* per session: "none", "running", "ended"
    m,         \* per session: the program's current model
    cmd,       \* per session: the command the last Init/Update returned
    quit,      \* per session: an Update has returned tea.Quit
    screen,    \* per session: the last View written to the terminal
    hist,      \* per session: the key events forwarded to the text field
    call,      \* per session: <<msg>> while Update(msg) is inside os.WriteFile
    wres,      \* per session: how os.WriteFile ended in the last Update
    \* ---- the file system
    file       \* output.log

procVars == <<proc, mainpc, srv, servepc, done, notified, closed, received, logs,
              shutdownErr, sigs>>

sessVars == <<status, m, cmd, quit, screen, hist, call, wres>>

vars == <<proc, mainpc, srv, servepc, done, notified, closed, received, logs,
          shutdownErr, sigs,
          status, m, cmd, quit, screen, hist, call, wres, file>>

\* The state when main starts: no session, and output.log absent or left
\* over from an earlier run.
Init ==
    /\ proc = "running"
    /\ mainpc = "newServer"
    /\ srv = "unset"
    /\ servepc = "none"
    /\ done = <<>>
    /\ notified = FALSE
    /\ closed = FALSE
    /\ received = <<>>
    /\ logs = {}
    /\ shutdownErr = "none"
    /\ sigs = 0
    /\ status = [s \in Sessions |-> "none"]
    /\ m = [s \in Sessions |-> initialModel]
    /\ cmd = [s \in Sessions |-> "nil"]
    /\ quit = [s \in Sessions |-> FALSE]
    /\ screen = [s \in Sessions |-> <<>>]
    /\ hist = [s \in Sessions |-> <<>>]
    /\ call = [s \in Sessions |-> <<>>]
    /\ wres = [s \in Sessions |-> "none"]
    /\ file \in {NoFile, [exists |-> TRUE, data |-> <<"z">>]}

(***************************************************************************)
(* The sessions.  Each accepted session runs its own program: an event     *)
(* loop that hands one message at a time to Update, keeps the returned     *)
(* model, runs the returned command and writes the view to the terminal.   *)
(***************************************************************************)
\* teaHandler(s): the middleware starts a program on initialModel() for an
\* accepted session, runs Init and renders the first view.
teaHandler(s) ==
    /\ proc = "running"
    /\ servepc = "serving"
    /\ ~closed
    /\ status[s] = "none"
    /\ status' = [status EXCEPT ![s] = "running"]
    /\ m' = [m EXCEPT ![s] = initialModel]
    /\ cmd' = [cmd EXCEPT ![s] = ModelInit]
    /\ screen' = [screen EXCEPT ![s] = View(initialModel)]
    /\ UNCHANGED <<quit, hist, call, wres, file>>
    /\ UNCHANGED procVars

\* A key event that Update forwards to the text field.
Forwarded(mdl, msg) == IsKeyMsg(msg) /\ Update(mdl, msg).cmd # "Quit"

\* The program may hand msg to session s's Update.
CanUpdate(s, msg) ==
    /\ proc = "running"
    /\ status[s] = "running"
    /\ call[s] = <<>>
    /\ Forwarded(m[s], msg) => Len(hist[s]) < MaxKeys

\* Return with one model shared by all sessions (a package-level variable).
ReturnShared(s, msg, res) ==
    LET r == Update(m[s], msg)
    IN  /\ m' = [t \in Sessions |-> r.model]
        /\ cmd' = [cmd EXCEPT ![s] = r.cmd]
        /\ quit' = [quit EXCEPT ![s] = quit[s] \/ r.cmd = "Quit"]
        /\ screen' = [screen EXCEPT ![s] = View(r.model)]
        /\ hist' = [hist EXCEPT ![s] = IF Forwarded(m[s], msg)
                                         THEN Append(hist[s], msg)
                                         ELSE hist[s]]
        /\ wres' = [wres EXCEPT ![s] = res]
        /\ call' = [call EXCEPT ![s] = <<>>]

\* Return with an error state: a failed os.WriteFile keeps the session
\* editing instead of quitting.
ReturnErrorState(s, msg, res) ==
    LET r == Update(m[s], msg)
        failed == res \in {"openFailed", "writeFailed"}
    IN  /\ m' = [m EXCEPT ![s] = r.model]
        /\ cmd' = [cmd EXCEPT ![s] = IF failed THEN "nil" ELSE r.cmd]
        /\ quit' = [quit EXCEPT ![s] = quit[s] \/ (r.cmd = "Quit" /\ ~failed)]
        /\ screen' = [screen EXCEPT ![s] = View(r.model)]
        /\ hist' = [hist EXCEPT ![s] = IF Forwarded(m[s], msg)
                                         THEN Append(hist[s], msg)
                                         ELSE hist[s]]
        /\ wres' = [wres EXCEPT ![s] = res]
        /\ call' = [call EXCEPT ![s] = <<>>]

\* Update(msg) of session s returns, os.WriteFile having ended with res.
Return(s, msg, res) ==
    LET r == Update(m[s], msg)
    IN  /\ m' = [m EXCEPT ![s] = r.model]
        /\ cmd' = [cmd EXCEPT ![s] = r.cmd]
        /\ quit' = [quit EXCEPT ![s] = quit[s] \/ r.cmd = "Quit"]
        /\ screen' = [screen EXCEPT ![s] = View(r.model)]
        /\ hist' = [hist EXCEPT ![s] = IF Forwarded(m[s], msg)
                                         THEN Append(hist[s], msg)
                                         ELSE hist[s]]
        /\ wres' = [wres EXCEPT ![s] = res]
        /\ call' = [call EXCEPT ![s] = <<>>]

\* One turn of the event loop with an Update that touches no file.
Step(s, msg) ==
    /\ CanUpdate(s, msg)
    /\ Update(m[s], msg).write = <<>>
    /\ Return(s, msg, "none")
    /\ UNCHANGED <<status, file>>
    /\ UNCHANGED procVars

\* One turn of the event loop with an Update that calls os.WriteFile: the
\* open.  When it fails, os.WriteFile returns the error, which Update drops,
\* and Update returns.
StepOpen(s, msg, ok) ==
    /\ CanUpdate(s, msg)
    /\ Update(m[s], msg).write # <<>>
    /\ IF ok
         THEN /\ file' = OpenTrunc(file)
              /\ call' = [call EXCEPT ![s] = <<msg>>]
              /\ UNCHANGED <<m, cmd, quit, screen, hist, wres>>
         ELSE /\ Return(s, msg, "openFailed")
              /\ UNCHANGED file
    /\ UNCHANGED status
    /\ UNCHANGED procVars

\* How many bytes the pending write of session s may get into the file.
WriteSizes(s) ==
    IF call[s] = <<>>
      THEN {}
      ELSE 0 .. Len(Update(m[s], call[s][1]).write[1])

\* The write of an Update inside os.WriteFile: the first n bytes of the data
\* reach the file, all of them when the write succeeds; Update returns.
StepWrite(s) ==
    /\ proc = "running"
    /\ status[s] = "running"
    /\ call[s] # <<>>
    /\ LET msg == call[s][1]
           data == Update(m[s], msg).write[1]
       IN  \E n \in WriteSizes(s) :
              /\ file' = WriteAt0(file, SubSeq(data, 1, n))
              /\ Return(s, msg, IF n = Len(data) THEN "ok" ELSE "writeFailed")
    /\ UNCHANGED status
    /\ UNCHANGED procVars

\* The QuitMsg produced by tea.Quit reaches the event loop: the program ends.
QuitMsg(s) ==
    /\ proc = "running"
    /\ status[s] = "running"
    /\ call[s] = <<>>
    /\ quit[s]
    /\ status' = [status EXCEPT ![s] = "ended"]
    /\ UNCHANGED <<m, cmd, quit, screen, hist, call, wres, file>>
    /\ UNCHANGED procVars

\* The client closes the connection: the middleware stops the program once
\* the event loop is between two messages.
Hangup(s) ==
    /\ proc = "running"
    /\ status[s] = "running"
    /\ call[s] = <<>>
    /\ status' = [status EXCEPT ![s] = "ended"]
    /\ UNCHANGED <<m, cmd, quit, screen, hist, call, wres, file>>
    /\ UNCHANGED procVars

(***************************************************************************)
(* The process: func main.                                                 *)
(***************************************************************************)
\* s, err := wish.NewServer(...): on an error s is nil, the error is logged
\* and main goes on.
MainNewServer(ok) ==
    /\ proc = "running"
    /\ mainpc = "newServer"
    /\ srv' = IF ok THEN "ok" ELSE "nil"
    /\ logs' = IF ok THEN logs ELSE logs \cup {"main: Could not start server"}
    /\ mainpc' = "notify"
    /\ UNCHANGED <<proc, servepc, done, notified, closed, received, sigs>>
    /\ UNCHANGED shutdownErr
    /\ UNCHANGED <<sessVars, file>>

\* done := make(chan os.Signal, 1); signal.Notify(done, ...).
MainNotify ==
    /\ proc = "running"
    /\ mainpc = "notify"
    /\ done' = <<>>
    /\ notified' = TRUE
    /\ mainpc' = "go"
    /\ UNCHANGED <<proc, srv, servepc, closed, received, logs, sigs>>
    /\ UNCHANGED shutdownErr
    /\ UNCHANGED <<sessVars, file>>

\* go func() { ... }(): the serving goroutine is started.
MainGo ==
    /\ proc = "running"
    /\ mainpc = "go"
    /\ servepc' = "listen"
    /\ mainpc' = "wait"
    /\ UNCHANGED <<proc, srv, done, notified, closed, received, logs, sigs>>
    /\ UNCHANGED shutdownErr
    /\ UNCHANGED <<sessVars, file>>

\* A receive that does not block: main goes on with nothing received.
MainReceiveNoWait ==
    /\ proc = "running"
    /\ mainpc = "wait"
    /\ received' = IF done # <<>> THEN <<Head(done)>> ELSE <<>>
    /\ done' = IF done # <<>> THEN Tail(done) ELSE done
    /\ mainpc' = "shutdown"
    /\ UNCHANGED <<proc, srv, servepc, notified, closed, logs, sigs>>
    /\ UNCHANGED shutdownErr
    /\ UNCHANGED <<sessVars, file>>

\* <-done: main blocks until the channel holds something.
MainReceive ==
    /\ proc = "running"
    /\ mainpc = "wait"
    /\ done # <<>>
    /\ received' = <<Head(done)>>
    /\ done' = Tail(done)
    /\ mainpc' = "shutdown"
    /\ UNCHANGED <<proc, srv, servepc, notified, closed, logs, sigs>>
    /\ UNCHANGED shutdownErr
    /\ UNCHANGED <<sessVars, file>>

\* s.Shutdown(ctx) is entered: it closes the listeners; on the nil server of
\* a failed NewServer the call dereferences nil and the process panics.
MainShutdown ==
    /\ proc = "running"
    /\ mainpc = "shutdown"
    /\ IF srv = "nil"
         THEN /\ proc' = "panicked"
              /\ UNCHANGED <<mainpc, closed>>
         ELSE /\ closed' = TRUE
              /\ mainpc' = "shutdownWait"
              /\ UNCHANGED proc
    /\ UNCHANGED <<srv, servepc, done, notified, received, logs, sigs>>
    /\ UNCHANGED shutdownErr
    /\ UNCHANGED <<sessVars, file>>

\* No session is running and the serving goroutine has left Serve.
Drained ==
    /\ \A s \in Sessions : status[s] # "running"
    /\ servepc # "serving"

\* Shutdown with a context that never expires: it returns only when drained.
MainShutdownReturnNoTimeout(err) ==
    /\ proc = "running"
    /\ mainpc = "shutdownWait"
    /\ Drained
    /\ logs' = IF err \notin {"nil", "ErrServerClosed"}
                 THEN logs \cup {"main: Could not stop server"}
                 ELSE logs
    /\ mainpc' = "returned"
    /\ proc' = "exited"
    /\ UNCHANGED <<srv, servepc, done, notified, closed, received, sigs>>
    /\ shutdownErr' = err
    /\ UNCHANGED <<sessVars, file>>

\* Shutdown's return with every error logged, the closed-server error too.
MainShutdownReturnLogsClosed(err) ==
    /\ proc = "running"
    /\ mainpc = "shutdownWait"
    /\ (err # "DeadlineExceeded") => Drained
    /\ logs' = IF err # "nil"
                 THEN logs \cup {"main: Could not stop server"}
                 ELSE logs
    /\ mainpc' = "returned"
    /\ proc' = "exited"
    /\ UNCHANGED <<srv, servepc, done, notified, closed, received, sigs>>
    /\ shutdownErr' = err
    /\ UNCHANGED <<sessVars, file>>

\* s.Shutdown(ctx) returns err: the context's error when the 30 s have
\* expired, any other result once the server has drained.  An error other
\* than the closed-server error is logged; then main returns and the process
\* exits.
MainShutdownReturn(err) ==
    /\ proc = "running"
    /\ mainpc = "shutdownWait"
    /\ (err # "DeadlineExceeded") => Drained
    /\ logs' = IF err \notin {"nil", "ErrServerClosed"}
                 THEN logs \cup {"main: Could not stop server"}
                 ELSE logs
    /\ mainpc' = "returned"
    /\ proc' = "exited"
    /\ UNCHANGED <<srv, servepc, done, notified, closed, received, sigs>>
    /\ shutdownErr' = err
    /\ UNCHANGED <<sessVars, file>>

(***************************************************************************)
(* The serving goroutine.                                                  *)
(***************************************************************************)
\* s.ListenAndServe() starts: on the nil server it panics; on a closed
\* server it returns the closed-server error; otherwise it binds the
\* listener and serves, or fails to bind, and then the error is logged.
ServeListen(bound) ==
    /\ proc = "running"
    /\ servepc = "listen"
    /\ IF srv = "nil"
         THEN /\ proc' = "panicked"
              /\ UNCHANGED <<servepc, logs>>
         ELSE /\ UNCHANGED proc
              /\ IF closed
                   THEN /\ servepc' = "exited"
                        /\ UNCHANGED logs
                   ELSE IF bound
                     THEN /\ servepc' = "serving"
                          /\ UNCHANGED logs
                     ELSE /\ servepc' = "send"
                          /\ logs' = logs \cup {"go: Could not start server"}
    /\ UNCHANGED <<mainpc, srv, done, notified, closed, received, sigs>>
    /\ UNCHANGED shutdownErr
    /\ UNCHANGED <<sessVars, file>>

\* s.ListenAndServe() returns while serving: the closed-server error after
\* Shutdown has closed the listeners (nothing is logged or sent), another
\* error when accepting fails (it is logged).
ServeReturn ==
    /\ proc = "running"
    /\ servepc = "serving"
    /\ IF closed
         THEN /\ servepc' = "exited"
              /\ UNCHANGED logs
         ELSE /\ servepc' = "send"
              /\ logs' = logs \cup {"go: Could not start server"}
    /\ UNCHANGED <<proc, mainpc, srv, done, notified, closed, received, sigs>>
    /\ UNCHANGED shutdownErr
    /\ UNCHANGED <<sessVars, file>>

\* The goroutine ends after logging, without the send on done.
ServeSendNothing ==
    /\ proc = "running"
    /\ servepc = "send"
    /\ servepc' = "exited"
    /\ UNCHANGED <<proc, mainpc, srv, done, notified, closed, received, logs, sigs>>
    /\ UNCHANGED shutdownErr
    /\ UNCHANGED <<sessVars, file>>

\* done <- nil: the send blocks while the buffer is full.
ServeSend ==
    /\ proc = "running"
    /\ servepc = "send"
    /\ Len(done) < DoneCap
    /\ done' = Append(done, "nil")
    /\ servepc' = "exited"
    /\ UNCHANGED <<proc, mainpc, srv, notified, closed, received, logs, sigs>>
    /\ UNCHANGED shutdownErr
    /\ UNCHANGED <<sessVars, file>>

(***************************************************************************)
(* The environment: an interrupt or termination signal.  Before            *)
(* signal.Notify the signal's default action kills the process; after it   *)
(* the runtime sends on done without blocking, dropping the signal when    *)
(* the buffer is full.                                                     *)
(***************************************************************************)
\* Delivery on a channel without buffer: the signal gets through only when
\* main is already blocked in the receive, and is dropped otherwise.
SignalUnbuffered ==
    /\ proc = "running"
    /\ sigs < MaxSignals
    /\ sigs' = sigs + 1
    /\ IF ~notified
         THEN /\ proc' = "killed"
              /\ UNCHANGED done
         ELSE /\ UNCHANGED proc
              /\ done' = IF mainpc = "wait" /\ done = <<>>
                           THEN Append(done, "signal")
                           ELSE done
    /\ UNCHANGED <<mainpc, srv, servepc, notified, closed, received, logs>>
    /\ UNCHANGED shutdownErr
    /\ UNCHANGED <<sessVars, file>>

Signal ==
    /\ proc = "running"
    /\ sigs < MaxSignals
    /\ sigs' = sigs + 1
    /\ IF ~notified
         THEN /\ proc' = "killed"
              /\ UNCHANGED done
         ELSE /\ UNCHANGED proc
              /\ done' = IF Len(done) < DoneCap THEN Append(done, "signal") ELSE done
    /\ UNCHANGED <<mainpc, srv, servepc, notified, closed, received, logs>>
    /\ UNCHANGED shutdownErr
    /\ UNCHANGED <<sessVars, file>>

(***************************************************************************)
(* The specification.                                                      *)
(***************************************************************************)
SessionNext ==
    \E s \in Sessions :
       \/ teaHandler(s)
       \/ \E msg \in MsgsOf(s) : Step(s, msg)
       \/ \E msg \in MsgsOf(s), ok \in BOOLEAN : StepOpen(s, msg, ok)
       \/ StepWrite(s)
       \/ QuitMsg(s)

MainNext ==
    \/ \E ok \in BOOLEAN : MainNewServer(ok)
    \/ MainNotify
    \/ MainGo
    \/ MainReceive
    \/ MainShutdown
    \/ \E err \in ShutdownResults : MainShutdownReturn(err)
    \/ \E bound \in BOOLEAN : ServeListen(bound)
    \/ ServeReturn
    \/ ServeSend
    \/ Signal

\* The start of the process up to the serving goroutine's listening.
StartNext ==
    \/ \E ok \in BOOLEAN : MainNewServer(ok)
    \/ MainNotify
    \/ MainGo
    \/ \E bound \in BOOLEAN : ServeListen(bound)

\* A session as the process sees it: it connects, asks to quit, ends.
ConnNext ==
    \E s \in Sessions :
       \/ teaHandler(s)
       \/ Step(s, Named("KeyCtrlC"))
       \/ QuitMsg(s)
       \/ Hangup(s)

Next == MainNext \/ SessionNext \/ ConnNext

\* The whole program.
System == Init /\ [][Next]_vars

\* The sessions of a process that starts and serves: every message of every
\* session, no signal and no shutdown.
Spec == Init /\ [][StartNext \/ SessionNext]_vars

\* The process: main, the serving goroutine and the signals, with sessions
\* that connect and end.
MainSpec == Init /\ [][MainNext \/ ConnNext]_vars

\* What the Go scheduler and the 30 s timer guarantee: main takes its next
\* step when it can (Shutdown returns at the latest when the context
\* expires), and so does the serving goroutine; a listener error, a signal
\* and everything a session does may or may not happen.
MainThread ==
    \/ \E ok \in BOOLEAN : MainNewServer(ok)
    \/ MainNotify
    \/ MainGo
    \/ MainReceive
    \/ MainShutdown
    \/ \E err \in ShutdownResults : MainShutdownReturn(err)

ServeThread ==
    \/ \E bound \in BOOLEAN : ServeListen(bound)
    \/ closed /\ ServeReturn
    \/ ServeSend

FairMainSpec == MainSpec /\ WF_vars(MainThread) /\ WF_vars(ServeThread)

(***************************************************************************)
(* The earlier revision (part_000): a stand-alone program, one event loop  *)
(* on the process's own terminal, no server and no text input.  Its model  *)
(* is an empty struct, its Init returns nil, and its Update has one        *)
(* statement, the write of the key's string; the revision has no return    *)
(* statement in Update (the "return m, nil" is commented out) and names    *)
(* tea.Quit nowhere, so what Update gives back is the model and no         *)
(* command.  The one program is kept in the first slot of the per-session  *)
(* variables.                                                              *)
(***************************************************************************)
Prog == "s1"

\* initialModel() of part_000: model{}.
initialModel000 == <<>>

\* Update of part_000 with the later revision's Ctrl+C branch: it quits.
Update000QuitsOnCtrlC(mdl, msg) ==
    [model |-> mdl,
     cmd |-> IF IsKeyMsg(msg) /\ KeyString(msg) = CtrlCStr THEN "Quit" ELSE "nil",
     write |-> IF IsKeyMsg(msg) THEN <<KeyString(msg)>> ELSE <<>>]

\* model.Update(msg) of part_000: for a key event,
\* os.WriteFile("output.log", []byte(key), 0644) with key := val.String().
Update000(mdl, msg) ==
    [model |-> mdl,
     cmd |-> "nil",
     write |-> IF IsKeyMsg(msg) THEN <<KeyString(msg)>> ELSE <<>>]

\* What the program receives.
Msgs000 == KeyMsgs \cup {WindowSizeMsg}

\* The state when part_000's main starts.
Init000 ==
    /\ proc = "running"
    /\ mainpc = "newServer"
    /\ srv = "unset"
    /\ servepc = "none"
    /\ done = <<>>
    /\ notified = FALSE
    /\ closed = FALSE
    /\ received = <<>>
    /\ logs = {}
    /\ shutdownErr = "none"
    /\ sigs = 0
    /\ status = [s \in Sessions |-> "none"]
    /\ m = [s \in Sessions |-> initialModel000]
    /\ cmd = [s \in Sessions |-> "nil"]
    /\ quit = [s \in Sessions |-> FALSE]
    /\ screen = [s \in Sessions |-> <<>>]
    /\ hist = [s \in Sessions |-> <<>>]
    /\ call = [s \in Sessions |-> <<>>]
    /\ wres = [s \in Sessions |-> "none"]
    /\ file \in {NoFile, [exists |-> TRUE, data |-> <<"z">>]}

\* main of part_000: p := tea.NewProgram(initialModel()); p.Run(), which
\* runs Init.
main000 ==
    /\ proc = "running"
    /\ status[Prog] = "none"
    /\ status' = [status EXCEPT ![Prog] = "running"]
    /\ m' = [m EXCEPT ![Prog] = initialModel000]
    /\ cmd' = [cmd EXCEPT ![Prog] = "nil"]
    /\ UNCHANGED <<quit, screen, hist, call, wres, file>>
    /\ UNCHANGED procVars

\* The event loop may hand msg to Update.
CanUpdate000(msg) ==
    /\ proc = "running"
    /\ status[Prog] = "running"
    /\ call[Prog] = <<>>
    /\ IsKeyMsg(msg) => Len(hist[Prog]) < MaxKeys

\* Update(msg) returns, os.WriteFile having ended with res; hist keeps the
\* key events handled.
Return000(msg, res) ==
    LET r == Update000(m[Prog], msg)
    IN  /\ m' = [m EXCEPT ![Prog] = r.model]
        /\ cmd' = [cmd EXCEPT ![Prog] = r.cmd]
        /\ quit' = [quit EXCEPT ![Prog] = quit[Prog] \/ r.cmd = "Quit"]
        /\ hist' = [hist EXCEPT ![Prog] = IF IsKeyMsg(msg)
                                            THEN Append(hist[Prog], msg)
                                            ELSE hist[Prog]]
        /\ wres' = [wres EXCEPT ![Prog] = res]
        /\ call' = [call EXCEPT ![Prog] = <<>>]

\* A turn of the event loop with a message that is no key: nothing written.
Step000(msg) ==
    /\ CanUpdate000(msg)
    /\ Update000(m[Prog], msg).write = <<>>
    /\ Return000(msg, "none")
    /\ UNCHANGED <<status, screen, file>>
    /\ UNCHANGED procVars

\* A turn of the event loop with a key: os.WriteFile's open.
StepOpen000(msg, ok) ==
    /\ CanUpdate000(msg)
    /\ Update000(m[Prog], msg).write # <<>>
    /\ IF ok
         THEN /\ file' = OpenTrunc(file)
              /\ call' = [call EXCEPT ![Prog] = <<msg>>]
              /\ UNCHANGED <<m, cmd, quit, hist, wres>>
         ELSE /\ Return000(msg, "openFailed")
              /\ UNCHANGED file
    /\ UNCHANGED <<status, screen>>
    /\ UNCHANGED procVars

\* os.WriteFile's write, whole or cut short, and Update's return.
StepWrite000 ==
    /\ proc = "running"
    /\ status[Prog] = "running"
    /\ call[Prog] # <<>>
    /\ LET msg == call[Prog][1]
           data == Update000(m[Prog], msg).write[1]
       IN  \E n \in 0 .. Len(data) :
              /\ file' = WriteAt0(file, SubSeq(data, 1, n))
              /\ Return000(msg, IF n = Len(data) THEN "ok" ELSE "writeFailed")
    /\ UNCHANGED <<status, screen>>
    /\ UNCHANGED procVars

Next000 ==
    \/ main000
    \/ \E msg \in Msgs000 : Step000(msg)
    \/ \E msg \in Msgs000, ok \in BOOLEAN : StepOpen000(msg, ok)
    \/ StepWrite000

\* The earlier revision's program.
Spec000 == Init000 /\ [][Next000]_vars

(***************************************************************************)
(* Properties.                                                             *)
(***************************************************************************)
\* The reserved keys of Update, by their string.
IsEnter(msg) == IsKeyMsg(msg) /\ KeyString(msg) = EnterStr

IsCtrlC(msg) == IsKeyMsg(msg) /\ KeyString(msg) = CtrlCStr

Reserved(msg) == IsEnter(msg) \/ IsCtrlC(msg)

\* What the event loop of session s holds.
Loop(s) == <<m[s], cmd[s], quit[s], screen[s], hist[s], call[s], wres[s]>>

\* This step is a turn of session s's event loop.  (A turn that changes
\* nothing of the loop is a stuttering step; the properties below look at
\* the turns only, which is all [A]_vars asks for.)
Turn(s) == Loop(s)' # Loop(s)

\* This step is session s's event loop handing msg to Update.
Handles(s, msg) ==
    /\ Turn(s)
    /\ \/ Step(s, msg)
       \/ StepOpen(s, msg, TRUE)
       \/ StepOpen(s, msg, FALSE)

\* This step is the return of session s's Update(msg) out of os.WriteFile.
ReturnsFromWrite(s, msg) ==
    /\ call[s] = <<msg>>
    /\ call'[s] = <<>>
    /\ StepWrite(s)

\* C1: when Update has handled Enter, output.log holds exactly the session's
\* text-field value at the moment Update returns, and the command returned
\* is tea.Quit.  (Stated for the case the claim is about: os.WriteFile has
\* reported success, here and in every other session's last call.)
C1_EnterWritesExactlyValue ==
    [][\A s \in Sessions : \A msg \in Msgs :
          (/\ IsEnter(msg) /\ ReturnsFromWrite(s, msg)
           /\ \A t \in Sessions : wres'[t] \in {"none", "ok"})
             => /\ file' = [exists |-> TRUE, data |-> m[s].ti.value]
                /\ cmd'[s] = "Quit"]_vars

\* C2: handling Ctrl+C returns tea.Quit and touches no file: the step leaves
\* output.log as it is and does not enter os.WriteFile, whatever was typed.
C2_CtrlCQuitsWithoutWriting ==
    [][\A s \in Sessions : \A msg \in Msgs :
          (IsCtrlC(msg) /\ Handles(s, msg))
             => /\ file' = file
                /\ call'[s] = <<>>
                /\ wres'[s] = "none"
                /\ cmd'[s] = "Quit"
                /\ quit'[s]]_vars

\* A session has typed something and then quit with Ctrl+C, and no file
\* has appeared.
C2_Witness ==
    \E s \in Sessions :
       /\ quit[s] /\ cmd[s] = "Quit" /\ wres[s] = "none"
       /\ Len(m[s].ti.value) > 0
       /\ file = NoFile

\* C3 as stated: handling either terminating key, Enter or Ctrl+C, enters
\* os.WriteFile to persist the value before the session terminates.
C3_BothKeysPersist ==
    [][\A s \in Sessions : \A msg \in Msgs :
          (Reserved(msg) /\ Handles(s, msg))
             => \/ file' = OpenTrunc(file) /\ call'[s] = <<msg>>
                \/ wres'[s] = "openFailed"]_vars

\* C3 as amended: only Enter persists.  Handling Enter enters os.WriteFile
\* with the value typed so far, and tea.Quit is returned only when that call
\* is over (a failed open, or the write of a prefix of the value, all of it
\* on success); handling Ctrl+C returns tea.Quit without any write.
C3_OnlyEnterPersists ==
    [][\A s \in Sessions : \A msg \in Msgs :
          /\ (IsEnter(msg) /\ Handles(s, msg))
                => \/ /\ file' = OpenTrunc(file)
                      /\ call'[s] = <<msg>>
                      /\ quit'[s] = quit[s]
                   \/ /\ wres'[s] = "openFailed"
                      /\ file' = file
                      /\ cmd'[s] = "Quit" /\ quit'[s]
          /\ (IsEnter(msg) /\ ReturnsFromWrite(s, msg))
                => /\ \E n \in 0 .. Len(m[s].ti.value) :
                         file' = WriteAt0(file, SubSeq(m[s].ti.value, 1, n))
                   /\ (wres'[s] = "ok") =>
                         file' = WriteAt0(file, m[s].ti.value)
                   /\ cmd'[s] = "Quit" /\ quit'[s]
          /\ (IsCtrlC(msg) /\ Handles(s, msg))
                => /\ file' = file
                   /\ call'[s] = <<>>
                   /\ cmd'[s] = "Quit" /\ quit'[s]]_vars

\* One session has saved a typed value with Enter and ended, another has
\* quit with Ctrl+C.
C3_Witness ==
    \E s, t \in Sessions :
       /\ s # t
       /\ status[s] = "ended" /\ quit[s] /\ wres[s] = "ok"
       /\ Len(m[s].ti.value) > 0
       /\ file = [exists |-> TRUE, data |-> m[s].ti.value]
       /\ quit[t] /\ cmd[t] = "Quit" /\ wres[t] = "none"

\* C4: a session starts editing (no quit requested); it comes to terminate
\* only in an Update of a key whose string is "ctrl+c" or "enter"; every
\* other message leaves it editing, returns no tea.Quit and touches no file.
C4_QuitOnlyOnReservedKeys ==
    [][\A s \in Sessions :
          /\ (status[s] = "none" /\ status'[s] = "running") => ~quit'[s]
          /\ (~quit[s] /\ quit'[s])
                => \E msg \in Msgs :
                      /\ Reserved(msg)
                      /\ Handles(s, msg) \/ ReturnsFromWrite(s, msg)
          /\ \A msg \in Msgs :
                (~Reserved(msg) /\ Handles(s, msg))
                   => /\ quit'[s] = quit[s]
                      /\ cmd'[s] # "Quit"
                      /\ file' = file
                      /\ call'[s] = <<>>
                      /\ status'[s] = "running"]_vars

\* A session still edits after a forwarded key and a blink.
C4_Witness ==
    \E s \in Sessions :
       /\ status[s] = "running" /\ ~quit[s]
       /\ Len(hist[s]) = MaxKeys
       /\ cmd[s] = "Blink"

\* C5: typing updates the displayed value.  An Update of a key other than
\* Enter and Ctrl+C hands the event to the text field and keeps the field's
\* new state (typed runes are inserted at the cursor), and the view rendered
\* is "Name?", a blank line and the text field's view of that new state.
C5_TypingUpdatesDisplay ==
    /\ [](\A s \in Sessions :
             status[s] # "none" => screen[s] = NamePrompt \o TiView(m[s].ti))
    /\ [][\A s \in Sessions : \A msg \in KeyMsgs :
             (~Reserved(msg) /\ Handles(s, msg))
                => /\ m'[s].ti = TiUpdate(m[s].ti, msg).ti
                   /\ (msg.type = "KeyRunes") =>
                         m'[s].ti.value =
                            InsertAt(m[s].ti.value, m[s].ti.pos, msg.runes)
                   /\ screen'[s] = NamePrompt \o TiView(m'[s].ti)]_vars

\* The terminal of a session shows "Name?", a blank line and "> ab".
C5_Witness ==
    \E s \in Sessions :
       /\ m[s].ti.value = <<"a", "b">>
       /\ screen[s] = <<"N", "a", "m", "e", "?", "\n", "\n", ">", " ", "a", "b", " ">>

\* The key events ks applied in order to the text field ti.
RECURSIVE ApplyKeys(_, _)
ApplyKeys(ti, ks) ==
    IF ks = <<>> THEN ti ELSE ApplyKeys(TiUpdate(ti, Head(ks)).ti, Tail(ks))

\* C6: in every reachable state the text field of a session is the empty,
\* focused field of initialModel (placeholder "Jae C", width 20) with the
\* non-terminating key events received so far applied in order; focus,
\* placeholder and width are those of the creation.
C6_ValueIsKeysApplied ==
    \A s \in Sessions :
       /\ m[s].ti = ApplyKeys(NewTextInput, hist[s])
       /\ m[s].ti.focus
       /\ m[s].ti.placeholder = Placeholder
       /\ m[s].ti.width = Width
       /\ (status[s] = "none") => m[s].ti.value = <<>>

\* A session has received "ab", left and a terminating key: the value is
\* "ab" with the cursor between the two.
C6_Witness ==
    \E s \in Sessions :
       /\ Len(hist[s]) = 2
       /\ m[s].ti.value = <<"a", "b">> /\ m[s].ti.pos = 1
       /\ quit[s]

\* What belongs to one session.
Local(s) == <<status[s], m[s], cmd[s], quit[s], screen[s], hist[s]>>

\* C7: sessions share no UI state.  An accepted session starts on a fresh
\* initialModel(); a message handled by one session changes nothing of
\* another; and whatever of a session changes, changes in a step of that
\* session.
C7_SessionsShareNoState ==
    [][\A s \in Sessions :
          /\ (status[s] = "none" /\ status'[s] = "running")
                => m'[s] = initialModel /\ hist'[s] = <<>> /\ ~quit'[s]
          /\ \A t \in Sessions \ {s} :
                /\ (Local(s)' = Local(s)) \/ (Local(t)' = Local(t))
                /\ \A msg \in Msgs :
                      (Handles(s, msg) \/ ReturnsFromWrite(s, msg))
                         => Local(t)' = Local(t)]_vars

\* Two sessions run side by side, each with its own typed value.
C7_Witness ==
    /\ status["s1"] = "running" /\ status["s2"] = "running"
    /\ m["s1"].ti.value = <<"a">>
    /\ m["s2"].ti.value = <<"b", "b">>

\* C8: main starts the serving goroutine and then blocks on done; Shutdown
\* is entered only after main has received from done, and what it received
\* is a delivered signal or the nil the goroutine sends after logging a
\* listener error.
C8_ShutdownOnlyAfterReceive ==
    /\ (mainpc \in {"shutdown", "shutdownWait", "returned"} \/ closed)
          => received # <<>>
    /\ (received = <<>>) => mainpc \in {"newServer", "notify", "go", "wait"}
    /\ (mainpc = "wait") => servepc # "none"
    /\ (received # <<>>) => servepc # "none"
    /\ (received = <<"signal">>) => (sigs > 0 /\ notified)
    /\ (received = <<"nil">>)
          => (servepc = "exited" /\ "go: Could not start server" \in logs)
    /\ received \in {<<>>, <<"signal">>, <<"nil">>}

\* Shutdown is under way after a signal, the goroutine still serving.
C8_Witness ==
    /\ mainpc = "shutdownWait"
    /\ received = <<"signal">>
    /\ servepc = "serving"

\* C9: once a signal has been sent to the process, the process eventually
\* exits; and once Shutdown has been entered it returns (with success, with
\* an error or at the expiry of the context) and main returns, also when a
\* session never ends.
C9_SignalLeadsToExit ==
    /\ (sigs > 0) ~> (proc # "running")
    /\ (mainpc = "shutdownWait") ~> (mainpc = "returned" /\ proc = "exited")

\* main has returned after a signal while a session is still running.
C9_Witness ==
    /\ proc = "exited" /\ mainpc = "returned"
    /\ received = <<"signal">>
    /\ \E s \in Sessions : status[s] = "running" /\ ~quit[s]

\* C10: the reserved keys are not forwarded.  An Update of Enter or Ctrl+C
\* returns the model it was given (value, cursor, focus unchanged) and
\* records no key for the text field; every other message is handed to the
\* text field's Update, whose new state is kept.
C10_ReservedKeysNotForwarded ==
    [][\A s \in Sessions : \A msg \in Msgs :
          /\ (Reserved(msg) /\ (Handles(s, msg) \/ ReturnsFromWrite(s, msg)))
                => /\ m'[s] = m[s]
                   /\ hist'[s] = hist[s]
                   /\ screen'[s] = screen[s]
          /\ (~Reserved(msg) /\ Handles(s, msg))
                => /\ m'[s].ti = TiUpdate(m[s].ti, msg).ti
                   /\ call'[s] = <<>>
                   /\ IsKeyMsg(msg) => hist'[s] = Append(hist[s], msg)]_vars

\* Enter has been handled on the value "ab": the model is as it was typed.
C10_Witness ==
    \E s \in Sessions :
       /\ cmd[s] = "Quit" /\ wres[s] = "ok"
       /\ m[s].ti.value = <<"a", "b">> /\ m[s].ti.pos = 2
       /\ Len(hist[s]) = 1

\* The two messages the process logs.
StartError == "go: Could not start server"

StopError == "main: Could not stop server"

\* C11: when ListenAndServe returns an error other than the closed-server
\* error, the error has been logged before the goroutine comes to its send
\* on done; with no signal at all the send gets through and main receives
\* the nil; and in every case main runs Shutdown, returns and the process
\* exits.
C11_ListenErrorWakesMain ==
    /\ [](servepc = "send" => (StartError \in logs /\ srv = "ok"))
    /\ (servepc = "send" /\ sigs = 0)
          ~> (sigs > 0 \/ (servepc = "exited" /\ received = <<"nil">>))
    /\ (servepc = "send")
          ~> (mainpc = "returned" /\ proc = "exited" /\ shutdownErr # "none")

\* The listener could not be bound, no signal was ever sent, and the
\* process has exited after a Shutdown.
C11_Witness ==
    /\ proc = "exited" /\ mainpc = "returned"
    /\ sigs = 0
    /\ received = <<"nil">>
    /\ StartError \in logs
    /\ \A s \in Sessions : status[s] = "none"

\* C12: when wish.NewServer has failed, the error is logged and the process
\* goes to its exit: the serving goroutine is not started on the server that
\* was never created, main does not block on done for it, and nothing
\* crashes.
C12_FailedNewServerExits ==
    (srv = "nil")
       => /\ "main: Could not start server" \in logs
          /\ servepc = "none"
          /\ mainpc # "wait"
          /\ proc # "panicked"

\* C13: the closed-server error is not an error.  When ListenAndServe
\* returns it (the goroutine leaves without more), nothing is logged and
\* nothing is sent on done; any other error of ListenAndServe is logged and
\* followed by the send, and the process goes on.  When Shutdown returns it,
\* or nil, nothing is logged; any other error of Shutdown is logged.  After
\* every result of Shutdown main returns and the process exits the same way.
C13_ClosedServerErrorNonFatal ==
    [][/\ (servepc \in {"listen", "serving"} /\ servepc' = "exited")
             => /\ logs' = logs
                /\ done' = done
                /\ closed
                /\ proc' = proc
       /\ (servepc \in {"listen", "serving"} /\ servepc' = "send")
             => /\ logs' = logs \cup {StartError}
                /\ done' = done
                /\ proc' = "running"
       /\ (servepc = "send" /\ servepc' # "send")
             => /\ done' = Append(done, "nil")
                /\ logs' = logs
                /\ servepc' = "exited"
       /\ (shutdownErr = "none" /\ shutdownErr' # "none")
             => /\ (shutdownErr' \in {"nil", "ErrServerClosed"}) => logs' = logs
                /\ (shutdownErr' \notin {"nil", "ErrServerClosed"})
                      => logs' = logs \cup {StopError}
                /\ mainpc = "shutdownWait"
                /\ mainpc' = "returned"
                /\ proc' = "exited"]_vars

\* Both calls have returned the closed-server error: the process has exited
\* with nothing logged and nothing sent on done.
C13_Witness ==
    /\ proc = "exited"
    /\ shutdownErr = "ErrServerClosed"
    /\ servepc = "exited"
    /\ received = <<"signal">>
    /\ logs = {}
    /\ done = <<>>

\* How os.WriteFile can fail.
Failed == {"openFailed", "writeFailed"}

\* C14: a failure of the write on Enter is ignored.  Whether os.WriteFile
\* fails at the open, fails in the write or succeeds, the Update of Enter
\* returns the model it was given with tea.Quit, leaving the session where a
\* success leaves it: about to end, with nothing that records the failure
\* in the model and no second attempt.
C14_WriteFailureIgnored ==
    /\ [](\A s \in Sessions :
             wres[s] \in Failed \cup {"ok"} => (quit[s] /\ cmd[s] = "Quit"))
    /\ [][\A s \in Sessions : \A msg \in Msgs :
             /\ (IsEnter(msg) /\ Handles(s, msg) /\ call'[s] = <<>>)
                   => /\ wres'[s] = "openFailed"
                      /\ file' = file
                      /\ m'[s] = m[s]
                      /\ cmd'[s] = "Quit" /\ quit'[s]
                      /\ status'[s] = "running"
             /\ (IsEnter(msg) /\ ReturnsFromWrite(s, msg))
                   => /\ wres'[s] \in {"ok", "writeFailed"}
                      /\ m'[s] = m[s]
                      /\ cmd'[s] = "Quit" /\ quit'[s]
                      /\ status'[s] = "running"
             /\ (wres[s] \in Failed /\ QuitMsg(s)) => status'[s] = "ended"]_vars

\* One session has ended after a write that failed half-way, the file
\* keeping the first rune only; the other has ended after a failed open.
C14_Witness ==
    \E s, t \in Sessions :
       /\ status[s] = "ended" /\ wres[s] = "writeFailed"
       /\ m[s].ti.value = <<"a", "b">>
       /\ file = [exists |-> TRUE, data |-> <<"a">>]
       /\ status[t] = "ended" /\ wres[t] = "openFailed"

\* The sessions whose last message was an Enter saved with success.
Saved == {s \in Sessions : wres[s] = "ok"}

\* C15: output.log is last-writer-wins and never a mix.  When no session is
\* inside os.WriteFile and every session that has connected has had its
\* Enter handled last, with success, the file holds the whole value of one
\* of them; and the file is touched only by the handling of an Enter.
C15_LastWriterWins ==
    /\ []((/\ \A s \in Sessions : call[s] = <<>>
           /\ \A s \in Sessions : status[s] = "none" \/ s \in Saved
           /\ Saved # {})
             => /\ file.exists
                /\ file.data \in {m[s].ti.value : s \in Saved})
    /\ [][(file' # file)
             => \E s \in Sessions : \E msg \in Msgs :
                   /\ IsEnter(msg)
                   /\ Handles(s, msg) \/ ReturnsFromWrite(s, msg)]_vars

\* C16: once an Update of a session has returned tea.Quit, no later key
\* event of that session is handled: its value and cursor stay as they are,
\* no key is recorded for the text field, and the session does not enter
\* os.WriteFile (again), so that it writes the file at most once.
C16_NothingHandledAfterQuit ==
    [][\A s \in Sessions :
          quit[s] => /\ m'[s] = m[s]
                     /\ hist'[s] = hist[s]
                     /\ call'[s] = <<>>]_vars

\* C17: the channel done never blocks the process.  Its buffer holds at most
\* one value; once a signal has been delivered or the goroutine has come to
\* its send, main's receive is satisfied; and once main has received, it
\* finishes Shutdown and the process exits, also while the goroutine is
\* blocked for ever in a send nobody will receive.
C17_DoneNeverDeadlocks ==
    /\ [](Len(done) <= DoneCap)
    /\ (done # <<>> /\ received = <<>>) ~> (received # <<>> \/ proc # "running")
    /\ (sigs > 0) ~> (received # <<>> \/ proc # "running")
    /\ (servepc = "send") ~> (received # <<>>)
    /\ (received # <<>>) ~> (proc # "running")
    /\ (received # <<>> /\ srv = "ok") ~> (mainpc = "returned" /\ proc = "exited")

\* The process has exited with the goroutine still blocked in its send, the
\* buffer full of a signal that came after main's receive.
C17_Witness ==
    /\ proc = "exited" /\ mainpc = "returned"
    /\ servepc = "send"
    /\ Len(done) = DoneCap

\* C18: in the earlier revision every key event makes Update call
\* os.WriteFile on output.log with the key's string: whenever the last
\* message handled ended in a successful write, the file holds exactly the
\* string of the most recent key, whatever keys came before, and never the
\* text typed; and no key, Ctrl+C and Enter included, makes Update return
\* tea.Quit or ends the program.
C18_EarlierRevisionWritesKey ==
    /\ [](/\ ~quit[Prog]
          /\ cmd[Prog] # "Quit"
          /\ status[Prog] # "ended"
          /\ m[Prog] = initialModel000)
    /\ []((wres[Prog] = "ok" /\ call[Prog] = <<>>)
             => /\ hist[Prog] # <<>>
                /\ file = [exists |-> TRUE,
                           data |-> KeyString(hist[Prog][Len(hist[Prog])])])
    /\ [][\A msg \in KeyMsgs :
             /\ (hist'[Prog] = Append(hist[Prog], msg))
                   => \/ /\ call[Prog] = <<>>
                         /\ wres'[Prog] = "openFailed"
                         /\ file' = file
                      \/ /\ call[Prog] = <<msg>>
                         /\ \E n \in 0 .. Len(KeyString(msg)) :
                               file' = [exists |-> TRUE,
                                        data |-> SubSeq(KeyString(msg), 1, n)]
                         /\ (wres'[Prog] = "ok") => file'.data = KeyString(msg)
             /\ (call[Prog] = <<>> /\ call'[Prog] = <<msg>>)
                   => file' = OpenTrunc(file)]_vars

\* Ctrl+C and then Enter have been handled: the program still runs and the
\* file holds "enter".
C18_Witness ==
    /\ status[Prog] = "running" /\ ~quit[Prog]
    /\ hist[Prog] = <<Named("KeyCtrlC"), Named("KeyEnter")>>
    /\ wres[Prog] = "ok"
    /\ file = [exists |-> TRUE, data |-> EnterStr]

=============================================================================
